---- MODULE Spec2Model ----
(***************************************************************************)
(* A state-machine model of js/script.js: the "Did you know?" fact picker, *)
(* the detail overlay (openModal / closeModal and the handlers that call   *)
(* them) and the gallery loader (the async click handler of getImageBtn).  *)
(*                                                                         *)
(* The page runs one thread.  A handler runs to completion; the only       *)
(* places where other events interleave are the two awaits of the loader   *)
(* (await fetch(...) and await response.json()).                           *)
(***************************************************************************)
EXTENDS Integers, Sequences, FiniteSets, TLC

\* ---------------------------------------------------------------- bounds
MaxLen == 2        \* longest response array explored
MaxClicks == 2     \* trigger clicks explored (so: overlapping fetches)
MaxFacts == 12     \* longest fact list explored
RandDenom == 16    \* Math.random() is explored as k / RandDenom, k in 0..RandDenom-1

\* ------------------------------------------------------- JavaScript values
\* The value of a property that is missing (or null) in the fetched JSON.
undefined == "<undefined>"

\* A null element of the fetched array.
Null == [null |-> TRUE]

\* JavaScript truthiness of a string-or-undefined value.
Truthy(v) == v # undefined /\ v # ""

\* a || b
Or(a, b) == IF Truthy(a) THEN a ELSE b

\* ---------------------------------------------------------- input domains
Item(mt, url, hd, th, title, date, expl) ==
    [media_type |-> mt, url |-> url, hdurl |-> hd, thumbnail_url |-> th,
     title |-> title, date |-> date, explanation |-> expl]

\* The Picture Records the dataset may hold: every branch of every || chain
\* and of the media_type test of script.js is taken by one of them.
Records ==
    { Item("image", "u1", undefined, undefined, "A", "2020-01-01", undefined),
      Item("video", "u2", undefined, "t2", "B", undefined, "about B"),
      Item(undefined, "u.jpg", "hd.jpg", undefined, undefined, undefined, undefined),
      Item("video", "https://embed/x", undefined, undefined, "", "", ""),
      Item("video", "", "hd5", "t5", "E", "2020-01-05", "about E"),
      Item("image", "u6", "", undefined, "F", "", "about F"),
      Item("video", undefined, undefined, undefined, undefined, "2020-01-07", undefined),
      Item("other", undefined, undefined, "t8", "H", "2020-01-08", "about H") }

\* Sequences over S of length lo..hi.
SeqsOf(S, lo, hi) == UNION { [1..n -> S] : n \in lo..hi }

\* The values response.json() may resolve with, the served file holding the
\* records ds: a value that is no array, or an array (possibly empty, possibly
\* with null elements).
NotAnArray == [isArray |-> FALSE, elems |-> <<>>]
Array(s) == [isArray |-> TRUE, elems |-> s]
JsonValues(ds) ==
    {NotAnArray} \cup { Array(s) : s \in SeqsOf(ds \cup {Null}, 0, MaxLen) }

\* HTTP statuses explored; response.ok is "status in 200..299".
Statuses == {200, 404, 500}
\* ResponseOk taking every status below 500 as a success.
ResponseOkBelow500(status) == status \in 200..499

ResponseOk(status) == status \in 200..299

\* What awaiting fetch() yields: a rejection or a response with a status.
Rejected == [rejected |-> TRUE, status |-> 0]
Response(status) == [rejected |-> FALSE, status |-> status]
FetchResults == {Rejected} \cup { Response(s) : s \in Statuses }

\* What awaiting response.json() yields: a rejection or a parsed value.
ParseError == [isArray |-> FALSE, elems |-> <<Null>>]
BodyResults(ds) == {ParseError} \cup JsonValues(ds)

\* error.message of the three kinds of failure
StatusMessage(status) ==
    CASE status = 404 -> "Network response was not ok (404)"
      [] status = 500 -> "Network response was not ok (500)"
      [] OTHER -> "Network response was not ok"
FetchRejectMessage == "Failed to fetch"
ParseErrorMessage == "Unexpected token in JSON"
NullItemMessage == "Cannot read properties of null (reading 'media_type')"

\* ------------------------------------------------------------------ state
VARIABLES
    dom,            \* which of the looked-up elements exist (lines 8-9, 72-78)
    ariaHidden,     \* modal's aria-hidden attribute
    iframes,        \* the elements with id 'modal-video', in document order (their src)
    imgSrc, imgDisplay, imgAlt,   \* modalImage.src / .style.display / .alt
    titleText, dateText, explText, \* textContent of the three text regions
    bodyOverflow,   \* document.body.style.overflow
    focus,          \* the element holding keyboard focus
    dataset,        \* the records the served file may hold
    galleryHTML,    \* the children of the gallery element, in order
    awaitingFetch,  \* loader invocations suspended at await fetch(apodData)
    awaitingBody,   \* loader invocations suspended at await response.json()
    clicks,         \* trigger clicks delivered
    fetches,        \* fetch() calls issued
    logged,         \* console.error entries written
    settled,        \* the last loader completion since the last trigger click
    ev,             \* the event handled last, with its input
    facts, rnd, factSection, factText, factPc    \* the fact picker

modalVars == <<ariaHidden, iframes, imgSrc, imgDisplay, imgAlt, titleText,
               dateText, explText, bodyOverflow, focus>>
galleryVars == <<galleryHTML, awaitingFetch, awaitingBody, fetches, logged, settled>>
factVars == <<facts, rnd, factSection, factText, factPc>>
vars == <<dom, dataset, modalVars, galleryVars, clicks, ev, factVars>>

Regions == {"getImageBtn", "gallery", "modal", "modalImage", "modalTitle",
            "modalDate", "modalExplanation", "modalCloseBtn", "modalOverlay"}

\* ------------------------------------------------------------ fact picker
NumSpaceFacts == 10
FactList(n) == [i \in 1..n |-> <<"fact", i>>]
spaceFacts == FactList(NumSpaceFacts)
FallbackFact == <<"Space is full of surprises!">>
NoFact == <<>>

\* FactIndex rounding to the nearest integer (Math.round).
FactIndexRounding(k, length) == (2 * k * length + RandDenom) \div (2 * RandDenom)

\* Math.floor(Math.random() * length), the random number being k / RandDenom
FactIndex(k, length) == (k * length) \div RandDenom

\* spaceFacts[idx] || 'Space is full of surprises!'   (idx is 0-based)
PickFact(list, idx) ==
    IF idx \in 0..(Len(list) - 1) THEN list[idx + 1] ELSE FallbackFact

showRandomFact ==
    /\ factPc = "load"
    /\ factSection' = TRUE
    /\ factText' = PickFact(facts, FactIndex(rnd, Len(facts)))
    /\ factPc' = "shown"
    /\ UNCHANGED <<facts, rnd>>
    /\ UNCHANGED <<dom, dataset, modalVars, galleryVars, clicks, ev>>

\* ------------------------------------------------------- modal controller
\* RemovePreviousIframe leaving the previous embed in place.
KeepPreviousIframe(fs) == fs

\* previousIframe = document.getElementById('modal-video');
\* if (previousIframe) previousIframe.remove();
RemovePreviousIframe(fs) == IF fs = <<>> THEN fs ELSE Tail(fs)

\* IframeSrc with the two operands swapped.
IframeSrcThumbnailFirst(item) == Or(Or(item.thumbnail_url, item.url), "")

\* iframe.src = item.url || item.thumbnail_url || ''
IframeSrc(item) == Or(Or(item.url, item.thumbnail_url), "")

\* ModalImageSrc with the two operands swapped.
ModalImageSrcUrlFirst(item) == Or(Or(item.url, item.hdurl), "")

\* modalImage.src = item.hdurl || item.url || ''
ModalImageSrc(item) == Or(Or(item.hdurl, item.url), "")

\* The iframe goes right after modalImage (before what followed it) or, with
\* no modalImage, at the end of modal.
InsertIframe(fs, src) ==
    IF dom.modalImage THEN <<src>> \o fs ELSE Append(fs, src)

openModal(item) ==
    IF item = Null \/ ~dom.modal
    THEN UNCHANGED modalVars
    ELSE /\ IF item.media_type = "video"
            THEN /\ imgDisplay' = IF dom.modalImage THEN "none" ELSE imgDisplay
                 /\ iframes' = InsertIframe(RemovePreviousIframe(iframes), IframeSrc(item))
                 /\ UNCHANGED <<imgSrc, imgAlt>>
            ELSE /\ iframes' = RemovePreviousIframe(iframes)
                 /\ IF dom.modalImage
                    THEN /\ imgDisplay' = ""
                         /\ imgSrc' = ModalImageSrc(item)
                         /\ imgAlt' = Or(item.title, "Space image")
                    ELSE UNCHANGED <<imgDisplay, imgSrc, imgAlt>>
         /\ titleText' = IF dom.modalTitle THEN Or(item.title, "Untitled") ELSE titleText
         /\ dateText' = IF dom.modalDate THEN Or(item.date, "") ELSE dateText
         /\ explText' = IF dom.modalExplanation THEN Or(item.explanation, "") ELSE explText
         /\ ariaHidden' = "false"
         /\ bodyOverflow' = "hidden"
         /\ focus' = IF dom.modalCloseBtn THEN "modalCloseBtn" ELSE focus

\* closeModal leaving the body scroll lock on.
closeModalKeepingScrollLock ==
    IF ~dom.modal
    THEN UNCHANGED modalVars
    ELSE /\ ariaHidden' = "true"
         /\ iframes' = RemovePreviousIframe(iframes)
         /\ IF dom.modalImage
            THEN imgSrc' = "" /\ imgDisplay' = ""
            ELSE UNCHANGED <<imgSrc, imgDisplay>>
         /\ UNCHANGED <<bodyOverflow, imgAlt, titleText, dateText, explText, focus>>

\* closeModal leaving the image source in place.
closeModalKeepingImage ==
    IF ~dom.modal
    THEN UNCHANGED modalVars
    ELSE /\ ariaHidden' = "true"
         /\ iframes' = RemovePreviousIframe(iframes)
         /\ IF dom.modalImage
            THEN imgDisplay' = ""
            ELSE UNCHANGED imgDisplay
         /\ bodyOverflow' = ""
         /\ UNCHANGED <<imgSrc, imgAlt, titleText, dateText, explText, focus>>

closeModal ==
    IF ~dom.modal
    THEN UNCHANGED modalVars
    ELSE /\ ariaHidden' = "true"
         /\ iframes' = RemovePreviousIframe(iframes)
         /\ IF dom.modalImage
            THEN imgSrc' = "" /\ imgDisplay' = ""
            ELSE UNCHANGED <<imgSrc, imgDisplay>>
         /\ bodyOverflow' = ""
         /\ UNCHANGED <<imgAlt, titleText, dateText, explText, focus>>

\* What a handler finds on entry: is the overlay visible, is a video embedded.
Found == [visible |-> ariaHidden = "false", video |-> iframes # <<>>]

\* modalCloseBtn.addEventListener('click', closeModal)
CloseBtnClick ==
    /\ dom.modalCloseBtn
    /\ closeModal
    /\ ev' = [op |-> "closeBtn", found |-> Found]
    /\ UNCHANGED <<dom, dataset, galleryVars, clicks, factVars>>

\* The values e.target.dataset.close may have: no data-close attribute, the
\* attribute with an empty value, the attribute with a value.
CloseMarkers == {undefined, "", "true"}

OverlayClick(marker) ==
    /\ dom.modalOverlay
    /\ IF Truthy(marker) THEN closeModal ELSE UNCHANGED modalVars
    /\ ev' = [op |-> "overlayClick", marker |-> marker, found |-> Found]
    /\ UNCHANGED <<dom, dataset, galleryVars, clicks, factVars>>

Keys == {"Escape", "Enter"}

\* KeyDown without the test of aria-hidden.
KeyDownUnguarded(key) ==
    /\ IF dom.modal /\ key = "Escape"
       THEN closeModal
       ELSE UNCHANGED modalVars
    /\ ev' = [op |-> "keydown", key |-> key, found |-> Found]
    /\ UNCHANGED <<dom, dataset, galleryVars, clicks, factVars>>

KeyDown(key) ==
    /\ IF dom.modal /\ key = "Escape" /\ ariaHidden = "false"
       THEN closeModal
       ELSE UNCHANGED modalVars
    /\ ev' = [op |-> "keydown", key |-> key, found |-> Found]
    /\ UNCHANGED <<dom, dataset, galleryVars, clicks, factVars>>

\* --------------------------------------------------------- gallery loader
LoadingP == [kind |-> "loading"]
NoImagesP == [kind |-> "noimages"]
ErrorP(message) == [kind |-> "error", message |-> message]

\* One pass of the forEach callback: the tile built for a record.
Tile(item) ==
    LET isVideo == item.media_type = "video"
        imgSrcT == IF isVideo THEN Or(Or(item.thumbnail_url, item.url), "")
                              ELSE Or(item.url, "")
    IN [kind |-> "tile",
        play |-> isVideo,
        src |-> imgSrcT,
        alt |-> Or(item.title, "Space image"),
        title |-> Or(item.title, "Untitled"),
        date |-> Or(item.date, ""),
        item |-> item]

\* BuildTiles putting each new tile first.
RECURSIVE BuildTilesPrepending(_, _)
BuildTilesPrepending(elems, html) ==
    IF elems = <<>> THEN [html |-> html, threw |-> FALSE]
    ELSE IF Head(elems) = Null THEN [html |-> html, threw |-> TRUE]
    ELSE BuildTilesPrepending(Tail(elems), <<Tile(Head(elems))>> \o html)

\* data.forEach(...) on a gallery holding html: the tiles are appended one by
\* one; a null element throws (item.media_type) and leaves what was appended.
RECURSIVE BuildTiles(_, _)
BuildTiles(elems, html) ==
    IF elems = <<>> THEN [html |-> html, threw |-> FALSE]
    ELSE IF Head(elems) = Null THEN [html |-> html, threw |-> TRUE]
    ELSE BuildTiles(Tail(elems), Append(html, Tile(Head(elems))))

\* ShowLoading appending the placeholder to what the gallery holds.
ShowLoadingAppending(html) == Append(html, LoadingP)

\* gallery.innerHTML = `<p class="loading">...</p>`
ShowLoading(html) == <<LoadingP>>

\* gallery.innerHTML = `<p>No images found.</p>`
ShowNoImages(html) == <<NoImagesP>>

\* ClearGallery leaving the content in place.
KeepGallery(html) == html

\* gallery.innerHTML = ''
ClearGallery(html) == <<>>

\* CatchError replacing only the loading placeholder.
CatchErrorOnPlaceholder(html, message) ==
    IF html = <<LoadingP>> THEN <<ErrorP(message)>> ELSE html

\* CatchError appending the message to what the gallery holds.
CatchErrorAppending(html, message) == Append(html, ErrorP(message))

\* The catch block: the message replaces whatever the gallery holds.
CatchError(html, message) == <<ErrorP(message)>>

\* The handler from the parsed value on (lines 188-240, and 241-245 when
\* forEach throws): the gallery it leaves and the log entries it writes.
RenderData(html, data) ==
    IF ~data.isArray \/ Len(data.elems) = 0
    THEN [html |-> ShowNoImages(html), logs |-> 0]
    ELSE LET built == BuildTiles(data.elems, ClearGallery(html))
         IN IF built.threw
            THEN [html |-> CatchError(built.html, NullItemMessage), logs |-> 1]
            ELSE [html |-> built.html, logs |-> 0]

\* No invocation has completed since the last trigger click.
NothingSettled == [done |-> FALSE, fetch |-> Rejected, body |-> NotAnArray, over |-> "none"]

\* The kind of content a completing invocation overwrites.
OverKind(html) == IF html = <<>> THEN "none" ELSE html[1].kind

\* The click handler up to its first await: fetch() is called at once.
StartFetch ==
    /\ galleryHTML' = ShowLoading(galleryHTML)
    /\ awaitingFetch' = awaitingFetch + 1
    /\ fetches' = fetches + 1
    /\ settled' = NothingSettled
    /\ UNCHANGED <<awaitingBody, logged>>

\* TriggerClick without the test of gallery.
TriggerClickUnguarded ==
    /\ dom.getImageBtn
    /\ clicks < MaxClicks
    /\ clicks' = clicks + 1
    /\ StartFetch
    /\ ev' = [op |-> "trigger", over |-> OverKind(galleryHTML)]
    /\ UNCHANGED <<dom, dataset, modalVars, factVars>>

\* TriggerClick closing the overlay before it loads.
TriggerClickClosing ==
    /\ dom.getImageBtn
    /\ clicks < MaxClicks
    /\ clicks' = clicks + 1
    /\ IF ~dom.gallery THEN UNCHANGED galleryVars ELSE StartFetch
    /\ closeModal
    /\ ev' = [op |-> "trigger", over |-> OverKind(galleryHTML)]
    /\ UNCHANGED <<dom, dataset, factVars>>

\* The click on getImageBtn; over is the kind of content the gallery held.
TriggerClick ==
    /\ dom.getImageBtn
    /\ clicks < MaxClicks
    /\ clicks' = clicks + 1
    /\ IF ~dom.gallery THEN UNCHANGED galleryVars ELSE StartFetch
    /\ ev' = [op |-> "trigger", over |-> OverKind(galleryHTML)]
    /\ UNCHANGED <<dom, dataset, modalVars, factVars>>

\* FetchSettle issuing the fetch again after a failure.
FetchSettleRetrying(r) ==
    /\ awaitingFetch > 0
    /\ IF ~r.rejected /\ ResponseOk(r.status)
       THEN /\ awaitingFetch' = awaitingFetch - 1
            /\ awaitingBody' = awaitingBody + 1
            /\ UNCHANGED <<galleryHTML, logged, settled, fetches>>
       ELSE /\ galleryHTML' = CatchError(galleryHTML,
                                 IF r.rejected THEN FetchRejectMessage
                                               ELSE StatusMessage(r.status))
            /\ logged' = logged + 1
            /\ settled' = [done |-> TRUE, fetch |-> r, body |-> NotAnArray,
                            over |-> OverKind(galleryHTML)]
            /\ fetches' = IF fetches < MaxClicks + 1 THEN fetches + 1 ELSE fetches
            /\ awaitingFetch' = IF fetches < MaxClicks + 1 THEN awaitingFetch
                                                           ELSE awaitingFetch - 1
            /\ UNCHANGED awaitingBody
    /\ ev' = [op |-> "fetchSettle", response |-> r]
    /\ UNCHANGED <<dom, dataset, modalVars, clicks, factVars>>

\* await fetch(apodData) ends, for one suspended invocation, with result r.
FetchSettle(r) ==
    /\ awaitingFetch > 0
    /\ awaitingFetch' = awaitingFetch - 1
    /\ IF ~r.rejected /\ ResponseOk(r.status)
       THEN /\ awaitingBody' = awaitingBody + 1
            /\ UNCHANGED <<galleryHTML, logged, settled>>
       ELSE /\ galleryHTML' = CatchError(galleryHTML,
                                 IF r.rejected THEN FetchRejectMessage
                                               ELSE StatusMessage(r.status))
            /\ logged' = logged + 1
            /\ settled' = [done |-> TRUE, fetch |-> r, body |-> NotAnArray,
                            over |-> OverKind(galleryHTML)]
            /\ UNCHANGED awaitingBody
    /\ ev' = [op |-> "fetchSettle", response |-> r]
    /\ UNCHANGED <<dom, dataset, modalVars, clicks, fetches, factVars>>

\* await response.json() ends, for one suspended invocation, with result b.
BodySettle(b) ==
    /\ awaitingBody > 0
    /\ awaitingBody' = awaitingBody - 1
    /\ IF b = ParseError
       THEN /\ galleryHTML' = CatchError(galleryHTML, ParseErrorMessage)
            /\ logged' = logged + 1
       ELSE LET out == RenderData(galleryHTML, b)
            IN /\ galleryHTML' = out.html
               /\ logged' = logged + out.logs
    /\ settled' = [done |-> TRUE, fetch |-> Response(200), body |-> b,
                    over |-> OverKind(galleryHTML)]
    /\ ev' = [op |-> "bodySettle", body |-> b]
    /\ UNCHANGED <<dom, dataset, modalVars, clicks, fetches, awaitingFetch, factVars>>

\* TileClick with one item variable shared by every tile's listener: each
\* tile opens the record of the last one.
TileClickLast(k) ==
    /\ k \in 1..Len(galleryHTML)
    /\ galleryHTML[k].kind = "tile"
    /\ openModal(galleryHTML[Len(galleryHTML)].item)
    /\ ev' = [op |-> "tileClick", k |-> k,
              item |-> galleryHTML[Len(galleryHTML)].item, found |-> Found]
    /\ UNCHANGED <<dom, dataset, galleryVars, clicks, factVars>>

\* itemEl.addEventListener('click', () => openModal(item)) of the k-th child
TileClick(k) ==
    /\ k \in 1..Len(galleryHTML)
    /\ galleryHTML[k].kind = "tile"
    /\ openModal(galleryHTML[k].item)
    /\ ev' = [op |-> "tileClick", k |-> k, item |-> galleryHTML[k].item, found |-> Found]
    /\ UNCHANGED <<dom, dataset, galleryVars, clicks, factVars>>

\* OpenCall putting a default record in the place of a missing one.
OpenCallDefaulting(item) ==
    /\ openModal(IF item = Null THEN Item(undefined, undefined, undefined, undefined,
                                          undefined, undefined, undefined)
                                ELSE item)
    /\ ev' = [op |-> "open", item |-> item, found |-> Found]
    /\ UNCHANGED <<dom, dataset, galleryVars, clicks, factVars>>

\* A call of openModal(item) by any caller; Null stands for every falsy
\* argument (null, undefined, 0, ''), which the test !item takes alike.
OpenCall(item) ==
    /\ openModal(item)
    /\ ev' = [op |-> "open", item |-> item, found |-> Found]
    /\ UNCHANGED <<dom, dataset, galleryVars, clicks, factVars>>

\* ---------------------------------------------------------- specifications
AllPresent == [r \in Regions |-> TRUE]

InitModal ==
    /\ ariaHidden \in {"true", undefined}
    /\ iframes = <<>>
    /\ imgSrc = "" /\ imgDisplay = "" /\ imgAlt = ""
    /\ titleText = "" /\ dateText = "" /\ explText = ""
    /\ bodyOverflow = ""
    /\ focus = "body"

InitGallery ==
    /\ galleryHTML = <<>>
    /\ awaitingFetch = 0 /\ awaitingBody = 0
    /\ clicks = 0 /\ fetches = 0 /\ logged = 0
    /\ settled = NothingSettled
    /\ ev = [op |-> "load"]

\* showRandomFact() has run at load and shown a fact of spaceFacts.
InitFactShown ==
    /\ facts = spaceFacts /\ rnd = 0 /\ factSection = TRUE
    /\ factText = spaceFacts[1] /\ factPc = "shown"

\* The two records of the served file in the whole-page specification.
ExampleImage == Item("image", "u1", undefined, undefined, "A", "2020-01-01", undefined)
ExampleVideo == Item("video", "u2", undefined, "t2", "B", undefined, "about B")
ExampleDataset == {ExampleImage, ExampleVideo}

\* The whole page once the script has run.
Init ==
    /\ dom = AllPresent
    /\ dataset = ExampleDataset
    /\ InitModal
    /\ InitGallery
    /\ InitFactShown

NextLoader ==
    \/ TriggerClick
    \/ \E r \in FetchResults : FetchSettle(r)
    \/ \E b \in BodyResults(dataset) : BodySettle(b)

NextModal ==
    \/ \E k \in 1..MaxLen : TileClick(k)
    \/ CloseBtnClick
    \/ \E marker \in CloseMarkers : OverlayClick(marker)
    \/ \E key \in Keys : KeyDown(key)

Next == NextLoader \/ NextModal

Spec == Init /\ [][Next]_vars

\* The gallery loader alone, the served file holding any two records.
InitLoader ==
    /\ dom = AllPresent
    /\ dataset \in { ds \in SUBSET Records : Cardinality(ds) = 2 }
    /\ InitModal /\ ariaHidden = "true"
    /\ InitGallery
    /\ InitFactShown

SpecLoader == InitLoader /\ [][NextLoader]_vars

\* The overlay alone, on a gallery that one load has filled with tiles.
InitLoaded ==
    /\ dom = AllPresent
    /\ dataset = Records
    /\ InitModal
    /\ \E s \in SeqsOf(Records, 1, MaxLen) :
          /\ galleryHTML = RenderData(<<LoadingP>>, Array(s)).html
          /\ settled = [done |-> TRUE, fetch |-> Response(200), body |-> Array(s),
                        over |-> "loading"]
          /\ ev = [op |-> "bodySettle", body |-> Array(s)]
    /\ awaitingFetch = 0 /\ awaitingBody = 0
    /\ clicks = 1 /\ fetches = 1 /\ logged = 0
    /\ InitFactShown

SpecModal == InitLoaded /\ [][NextModal]_vars

\* The fact picker alone, at page load, for every list length and random draw.
InitFact ==
    /\ dom = AllPresent
    /\ dataset = ExampleDataset
    /\ InitModal /\ ariaHidden = "true"
    /\ InitGallery
    /\ facts \in { FactList(n) : n \in 1..MaxFacts }
    /\ rnd \in 0..(RandDenom - 1)
    /\ factSection \in BOOLEAN
    /\ factText = NoFact
    /\ factPc = "load"

NextFact == showRandomFact

SpecFact == InitFact /\ [][NextFact]_vars

\* The whole page, any of the looked-up elements missing, the served file
\* holding one record (an image or a video).
InitDom ==
    /\ dom \in [Regions -> BOOLEAN]
    /\ dataset \in { {r} : r \in ExampleDataset }
    /\ InitModal /\ ariaHidden = "true"
    /\ InitGallery
    /\ InitFactShown

SpecDom == InitDom /\ [][Next]_vars

\* openModal and closeModal called directly, with any record or none.
InitOpen ==
    /\ dom = AllPresent
    /\ dataset = Records
    /\ InitModal
    /\ InitGallery
    /\ InitFactShown

NextOpen ==
    \/ \E item \in dataset \cup {Null} : OpenCall(item)
    \/ CloseBtnClick
    \/ \E key \in Keys : KeyDown(key)

SpecOpen == InitOpen /\ [][NextOpen]_vars

\* ------------------------------------------------------------------ claims
\* A step in which closeModal is called: the close control, a click on a
\* marked overlay target, or Escape with the overlay visible.
ClosingStep ==
    \/ ev'.op = "closeBtn"
    \/ ev'.op = "overlayClick" /\ Truthy(ev'.marker)
    \/ ev'.op = "keydown" /\ ev'.key = "Escape" /\ ariaHidden = "false"

EscapeStep == ev'.op = "keydown" /\ ev'.key = "Escape"

OpenStep == ev'.op = "tileClick"

\* C1: Escape pressed while the overlay is visible (aria-hidden = 'false')
\* hides it; Escape pressed while it is hidden (aria-hidden 'true' or unset)
\* changes none of: the overlay attribute, the video embed, the image source
\* and visibility, the body scroll lock.
C1_EscapeClosesOnlyWhenVisible ==
    [][ EscapeStep =>
          /\ ariaHidden = "false" => ariaHidden' = "true"
          /\ ariaHidden # "false" =>
                UNCHANGED <<ariaHidden, iframes, imgSrc, imgDisplay, bodyOverflow>>
      ]_vars

\* Escape has just hidden an overlay that was showing a video.
C1_Witness ==
    /\ ev.op = "keydown" /\ ev.key = "Escape"
    /\ ev.found.visible /\ ev.found.video
    /\ ariaHidden = "true"

\* The source the claim gives the video embed: url, thumbnail_url when url is
\* absent (missing or empty), nothing when both are.
C2_Source(item) ==
    IF Truthy(item.url) THEN item.url
    ELSE IF Truthy(item.thumbnail_url) THEN item.thumbnail_url
    ELSE ""

\* C2: after open with a record whose media_type is 'video' the overlay holds
\* a video embed whose source is the record's url (thumbnail_url when url is
\* absent) and the image element is hidden; a close() while the embed is
\* there removes it and shows the image element again.
C2_VideoEmbedShownThenRemoved ==
    [][ /\ (OpenStep /\ ev'.item.media_type = "video") =>
              /\ iframes' = <<C2_Source(ev'.item)>>
              /\ imgDisplay' = "none"
        /\ (ClosingStep /\ iframes # <<>>) =>
              /\ iframes' = <<>>
              /\ imgDisplay' = ""
      ]_vars

\* close() has just removed the embed of the record {video, https://embed/x}.
C2_Witness ==
    /\ ev.op = "closeBtn" /\ ev.found.video
    /\ titleText = "Untitled" /\ dateText = "" /\ focus = "modalCloseBtn"
    /\ iframes = <<>> /\ imgDisplay = ""

\* The image source the claim gives: hdurl when present, otherwise url,
\* otherwise the empty string.
C3_Source(item) ==
    IF Truthy(item.hdurl) THEN item.hdurl
    ELSE IF Truthy(item.url) THEN item.url
    ELSE ""

\* C3: after open with a record whose media_type is absent or not 'video' the
\* image source is hdurl when present, otherwise url, otherwise empty, and
\* the overlay holds no video embed.
C3_ImagePrefersHdurl ==
    [][ (OpenStep /\ ev'.item.media_type # "video") =>
          /\ imgSrc' = C3_Source(ev'.item)
          /\ iframes' = <<>>
      ]_vars

\* {hdurl: hd.jpg, url: u.jpg}, media_type absent, has just been opened over
\* a video that was showing.
C3_Witness ==
    /\ ev.op = "tileClick"
    /\ ev.item.media_type = undefined /\ ev.item.hdurl = "hd.jpg" /\ ev.item.url = "u.jpg"
    /\ ev.found.video
    /\ imgSrc = "hd.jpg" /\ iframes = <<>> /\ imgDisplay = ""

NoTiles(html) == \A k \in 1..Len(html) : html[k].kind # "tile"

ErrorOnly(html) == Len(html) = 1 /\ html[1].kind = "error"

HttpFailureStep ==
    /\ ev'.op = "fetchSettle"
    /\ ~ev'.response.rejected
    /\ ev'.response.status \notin 200..299

FetchRejectedStep == ev'.op = "fetchSettle" /\ ev'.response.rejected

ParseFailureStep == ev'.op = "bodySettle" /\ ev'.body = ParseError

ParsedStep == ev'.op = "bodySettle" /\ ev'.body # ParseError

NoPending == awaitingFetch = 0 /\ awaitingBody = 0

\* C4: a fetch that resolves with a non-success status leaves the gallery
\* holding the error message and no tile; a body that parses to anything but
\* a non-empty array leaves the 'No images found' message, which is not the
\* error message, no tile, and writes no log entry.
C4_HttpErrorAndNoDataMessages ==
    [][ /\ HttpFailureStep => ErrorOnly(galleryHTML') /\ NoTiles(galleryHTML')
        /\ (ParsedStep /\ (~ev'.body.isArray \/ Len(ev'.body.elems) = 0)) =>
              /\ galleryHTML' = <<NoImagesP>>
              /\ ~ErrorOnly(galleryHTML') /\ NoTiles(galleryHTML')
              /\ logged' = logged
      ]_vars

\* An empty array has just replaced the error message left by an overlapping
\* failed fetch, the one log entry being that failure's.
C4_Witness ==
    /\ ev.op = "bodySettle" /\ ev.body = Array(<<>>)
    /\ settled.over = "error" /\ logged = 1
    /\ galleryHTML = <<NoImagesP>>

\* C5: in every state the tiles in the gallery are exactly the records of one
\* response, in its order, with nothing else beside them.
C5_TilesOfOneResponse ==
    (\E k \in 1..Len(galleryHTML) : galleryHTML[k].kind = "tile") =>
        /\ settled.done /\ settled.body.isArray
        /\ Len(galleryHTML) = Len(settled.body.elems)
        /\ \A k \in 1..Len(galleryHTML) :
              /\ galleryHTML[k].kind = "tile"
              /\ galleryHTML[k].item = settled.body.elems[k]

\* The second of two overlapping loads has replaced the tiles of the first.
C5_Witness ==
    /\ clicks = 2 /\ NoPending
    /\ settled.done /\ settled.over = "tile"
    /\ Len(galleryHTML) = 2 /\ galleryHTML[1].kind = "tile" /\ galleryHTML[2].kind = "tile"

\* C6: after a body that parsed to a non-empty array of records the gallery
\* holds one tile per record, in the order of the array, and a tile has the
\* play marker exactly when its record's media_type is 'video'.
C6_OneTilePerRecordInOrder ==
    (/\ ev.op = "bodySettle" /\ ev.body.isArray /\ ev.body.elems # <<>>
     /\ \A k \in 1..Len(ev.body.elems) : ev.body.elems[k] # Null) =>
        /\ Len(galleryHTML) = Len(ev.body.elems)
        /\ \A k \in 1..Len(ev.body.elems) :
              /\ galleryHTML[k].kind = "tile"
              /\ galleryHTML[k].item = ev.body.elems[k]
              /\ galleryHTML[k].play <=> (ev.body.elems[k].media_type = "video")

\* The response [{A, image, u1}, {B, video, u2, t2}] has been rendered.
C6_Witness ==
    /\ ev.op = "bodySettle" /\ ev.body = Array(<<ExampleImage, ExampleVideo>>)
    /\ Len(galleryHTML) = 2
    /\ galleryHTML[1].title = "A" /\ ~galleryHTML[1].play
    /\ galleryHTML[2].title = "B" /\ galleryHTML[2].play

\* What the invocation that completed with st leaves by itself.
C7_Outcome(st) ==
    IF st.fetch.rejected THEN <<ErrorP(FetchRejectMessage)>>
    ELSE IF st.fetch.status \notin 200..299 THEN <<ErrorP(StatusMessage(st.fetch.status))>>
    ELSE IF st.body = ParseError THEN <<ErrorP(ParseErrorMessage)>>
    ELSE IF ~st.body.isArray \/ st.body.elems = <<>> THEN <<NoImagesP>>
    ELSE IF \E k \in 1..Len(st.body.elems) : st.body.elems[k] = Null
         THEN <<ErrorP(NullItemMessage)>>
    ELSE [k \in 1..Len(st.body.elems) |-> Tile(st.body.elems[k])]

\* C7: a trigger click while an invocation is pending starts one more fetch
\* and leaves the pending ones running; whenever none is pending any more the
\* gallery shows the outcome of the invocation that completed last (a
\* successful one completes when its body has been parsed), whatever it
\* overwrote.
C7_LastCompletionWins ==
    [][ /\ (ev'.op = "trigger" /\ ~NoPending) =>
              /\ fetches' = fetches + 1
              /\ awaitingFetch' = awaitingFetch + 1
              /\ awaitingBody' = awaitingBody
        /\ (NoPending' /\ settled'.done) => galleryHTML' = C7_Outcome(settled')
      ]_vars

\* Two overlapping loads are over; the later completion, a failure, has
\* replaced the tiles the earlier one had rendered.
C7_Witness ==
    /\ clicks = 2 /\ fetches = 2 /\ NoPending
    /\ settled.done /\ settled.over = "tile"
    /\ ErrorOnly(galleryHTML)

\* C8: when an invocation completes the gallery holds the complete tile list
\* of its response, or the 'no images' message, or the error message; after
\* a null element part-way only the error message is there; and once no
\* invocation is pending the loading placeholder is gone.
C8_NoPartialGallery ==
    [][ /\ (HttpFailureStep \/ FetchRejectedStep \/ ev'.op = "bodySettle") =>
              \/ ErrorOnly(galleryHTML')
              \/ galleryHTML' = <<NoImagesP>>
              \/ /\ ParsedStep /\ ev'.body.isArray
                 /\ \A k \in 1..Len(ev'.body.elems) : ev'.body.elems[k] # Null
                 /\ galleryHTML' = [k \in 1..Len(ev'.body.elems) |-> Tile(ev'.body.elems[k])]
        /\ (ParsedStep /\ \E k \in 1..Len(ev'.body.elems) : ev'.body.elems[k] = Null) =>
              galleryHTML' = <<ErrorP(NullItemMessage)>>
        /\ (NoPending' /\ clicks' > 0) =>
              \A k \in 1..Len(galleryHTML') : galleryHTML'[k].kind # "loading"
      ]_vars

\* A response whose second element is null: the tile of the first is gone.
C8_Witness ==
    /\ ev.op = "bodySettle" /\ ev.body.isArray /\ Len(ev.body.elems) = 2
    /\ ev.body.elems[1] # Null /\ ev.body.elems[2] = Null
    /\ galleryHTML = <<ErrorP(NullItemMessage)>>

\* error.message of a transport, HTTP or parse failure.
C9_Description(e) ==
    IF e.op = "bodySettle" THEN ParseErrorMessage
    ELSE IF e.response.rejected THEN FetchRejectMessage
    ELSE StatusMessage(e.response.status)

\* C9: a rejected fetch, a non-2xx status and a body that fails to parse each
\* end their invocation with the error message holding the failure's
\* description in the gallery and one more log entry, and issue no fetch; the
\* fetches issued always number the trigger clicks.
C9_FailuresCaughtNotRetried ==
    [][ /\ (HttpFailureStep \/ FetchRejectedStep \/ ParseFailureStep) =>
              /\ galleryHTML' = <<ErrorP(C9_Description(ev'))>>
              /\ logged' = logged + 1
              /\ fetches' = fetches
              /\ awaitingFetch' + awaitingBody' = awaitingFetch + awaitingBody - 1
        /\ dom.gallery => fetches' = clicks'
      ]_vars

\* Two loads have failed, the later on an unparsable body: two log entries,
\* two fetches for two clicks.
C9_Witness ==
    /\ ev.op = "bodySettle" /\ ev.body = ParseError
    /\ clicks = 2 /\ fetches = 2 /\ logged = 2 /\ NoPending
    /\ galleryHTML = <<ErrorP(ParseErrorMessage)>>

\* C10: for every fact list of nonzero length and every random number in
\* [0, 1) the index computed lies in 0..length-1, and the text shown is an
\* element of the list, not the fallback string.
C10_FactIndexInRange ==
    /\ FactIndex(rnd, Len(facts)) \in 0..(Len(facts) - 1)
    /\ factPc = "shown" =>
          /\ \E i \in 1..Len(facts) : factText = facts[i]
          /\ factText # FallbackFact /\ factText # NoFact

\* The largest random number has picked the last of ten facts.
C10_Witness ==
    /\ factPc = "shown"
    /\ Len(facts) = NumSpaceFacts /\ rnd = RandDenom - 1
    /\ factText = facts[NumSpaceFacts]

\* C11: a click delivered to the overlay closes the detail overlay if and
\* only if the click's target carries the data-close attribute: after a click
\* on a target with the attribute the overlay is hidden, the embed is gone
\* and scrolling is restored, and a click on a target without it leaves the
\* visibility, the embed, the image and the scroll lock unchanged.
C11_ClosesIffTargetMarked ==
    [][ ev'.op = "overlayClick" =>
          IF ev'.marker # undefined
          THEN ariaHidden' # "false" /\ iframes' = <<>> /\ bodyOverflow' = ""
          ELSE UNCHANGED <<ariaHidden, iframes, imgSrc, imgDisplay, bodyOverflow>>
      ]_vars

\* C12: whatever subset of the looked-up elements is absent, every handler
\* runs to its end and skips only the effects on the absent ones: an absent
\* element is never given a state (it stays as at load), an absent close
\* control or overlay background has no listener, with the overlay absent
\* open and close change nothing, with the trigger or the gallery absent no
\* fetch is issued and the gallery is untouched, and the effects that follow
\* a skipped one (the aria-hidden attribute, the scroll lock, the embed, the
\* regions that are present) have taken place when the handler is over.
C12_AbsentRegionsSkipped ==
    /\ ~dom.modal =>
          /\ ariaHidden = "true" /\ iframes = <<>> /\ bodyOverflow = ""
          /\ imgSrc = "" /\ imgDisplay = "" /\ imgAlt = ""
          /\ titleText = "" /\ dateText = "" /\ explText = "" /\ focus = "body"
    /\ ~dom.modalImage => imgSrc = "" /\ imgDisplay = "" /\ imgAlt = ""
    /\ ~dom.modalTitle => titleText = ""
    /\ ~dom.modalDate => dateText = ""
    /\ ~dom.modalExplanation => explText = ""
    /\ ~dom.modalCloseBtn => focus = "body" /\ ev.op # "closeBtn"
    /\ ~dom.modalOverlay => ev.op # "overlayClick"
    /\ ~dom.getImageBtn => clicks = 0 /\ ev.op # "trigger"
    /\ (~dom.getImageBtn \/ ~dom.gallery) =>
          /\ galleryHTML = <<>> /\ fetches = 0 /\ logged = 0
          /\ NoPending /\ settled = NothingSettled
    /\ (ev.op = "trigger" /\ dom.gallery) =>
          fetches = clicks /\ galleryHTML = <<LoadingP>>
    /\ (ev.op = "tileClick" /\ dom.modal) =>
          /\ ariaHidden = "false" /\ bodyOverflow = "hidden"
          /\ dom.modalTitle => titleText = Or(ev.item.title, "Untitled")
          /\ dom.modalDate => dateText = Or(ev.item.date, "")
          /\ dom.modalExplanation => explText = Or(ev.item.explanation, "")
          /\ dom.modalCloseBtn => focus = "modalCloseBtn"
          /\ iframes = IF ev.item.media_type = "video" THEN <<IframeSrc(ev.item)>>
                                                      ELSE <<>>
          /\ dom.modalImage =>
                IF ev.item.media_type = "video" THEN imgDisplay = "none"
                ELSE imgDisplay = "" /\ imgSrc = ModalImageSrc(ev.item)
    /\ (/\ dom.modal
        /\ \/ ev.op = "closeBtn"
           \/ ev.op = "overlayClick" /\ Truthy(ev.marker)
           \/ ev.op = "keydown" /\ ev.key = "Escape" /\ ev.found.visible) =>
          /\ ariaHidden = "true" /\ iframes = <<>> /\ bodyOverflow = ""
          /\ dom.modalImage => imgSrc = "" /\ imgDisplay = ""

\* A video has been opened on a page without image element, title region and
\* close control: the overlay is visible with its embed, the title and the
\* focus are as they were.
C12_Witness ==
    /\ ev.op = "tileClick" /\ ev.item.media_type = "video"
    /\ ~dom.modalImage /\ ~dom.modalTitle /\ ~dom.modalCloseBtn
    /\ ariaHidden = "false" /\ iframes # <<>> /\ bodyOverflow = "hidden"
    /\ titleText = "" /\ focus = "body" /\ imgDisplay = ""

\* C13: a click on the tile at position k opens the k-th record of the
\* response that built the tiles the gallery holds, and the title, date and
\* explanation regions then show that record's fields (or their fallbacks),
\* whatever other invocations have been started or have completed.
C13_TileOpensItsRecord ==
    [][ OpenStep =>
          /\ settled.done /\ settled.body.isArray
          /\ ev'.k \in 1..Len(settled.body.elems)
          /\ ev'.item = settled.body.elems[ev'.k]
          /\ titleText' = Or(settled.body.elems[ev'.k].title, "Untitled")
          /\ dateText' = Or(settled.body.elems[ev'.k].date, "")
          /\ explText' = Or(settled.body.elems[ev'.k].explanation, "")
      ]_vars

\* The second tile of [{A, image}, {B, video}] has been clicked while another
\* load, started before these tiles were built, is still pending.
C13_Witness ==
    /\ ev.op = "tileClick" /\ ev.k = 2
    /\ settled.body = Array(<<ExampleImage, ExampleVideo>>)
    /\ clicks = 2 /\ awaitingFetch + awaitingBody = 1
    /\ titleText = "B" /\ dateText = "" /\ explText = "about B"

\* C14: a trigger click leaves the gallery holding the loading placeholder
\* and nothing else, whatever it held; from the click until an invocation
\* completes the gallery holds that placeholder and no tile; and a load that
\* fails leaves the error message and no tile.
C14_TilesDiscardedAtClick ==
    [][ /\ ev'.op = "trigger" => galleryHTML' = <<LoadingP>>
        /\ (clicks' > 0 /\ settled' = NothingSettled) =>
              galleryHTML' = <<LoadingP>> /\ NoTiles(galleryHTML')
        /\ (HttpFailureStep \/ FetchRejectedStep \/ ParseFailureStep) =>
              ErrorOnly(galleryHTML') /\ NoTiles(galleryHTML')
      ]_vars

\* The trigger has just been clicked on a gallery that was showing the tiles
\* of the previous load.
C14_Witness ==
    /\ ev.op = "trigger" /\ ev.over = "tile"
    /\ clicks = 2 /\ awaitingFetch = 1 /\ awaitingBody = 0
    /\ galleryHTML = <<LoadingP>>

\* C15: open called with no record changes nothing of the overlay: its
\* visibility, the embed, the image source, visibility and alt text, the
\* three text regions, the scroll lock and the focus stay as they were,
\* whether the overlay was hidden or visible.
C15_OpenWithoutRecordIsNoOp ==
    [][ (ev'.op = "open" /\ ev'.item = Null) => UNCHANGED modalVars ]_vars

\* open has been called with no record on an overlay that was showing a
\* video; the overlay still shows it.
C15_Witness ==
    /\ ev.op = "open" /\ ev.item = Null
    /\ ev.found.visible /\ ev.found.video
    /\ ariaHidden = "false" /\ iframes # <<>> /\ imgDisplay = "none"
    /\ bodyOverflow = "hidden" /\ focus = "modalCloseBtn"

\* C16: in every state reached from the hidden overlay by tile clicks, the
\* close control, overlay clicks and key presses, the body scroll lock is on
\* (overflow 'hidden') exactly when the overlay is visible (aria-hidden
\* 'false').
C16_ScrollLockedIffVisible ==
    (bodyOverflow = "hidden") <=> (ariaHidden = "false")

\* A click on a marked overlay target has just hidden a visible overlay and
\* released the scroll lock.
C16_Witness ==
    /\ ev.op = "overlayClick" /\ Truthy(ev.marker) /\ ev.found.visible
    /\ ariaHidden = "true" /\ bodyOverflow = ""

\* C17: in every state reached by opening image and video records (also on
\* an overlay already visible), closing, Escape and overlay clicks, the
\* overlay holds at most one video embed, holds one only while it is
\* visible, and the image element is hidden exactly when an embed is there.
C17_OneEmbedOnlyWhileVisible ==
    /\ Len(iframes) <= 1
    /\ iframes # <<>> => ariaHidden = "false"
    /\ (imgDisplay = "none") <=> (iframes # <<>>)

\* A video has been opened over another video that was showing: one embed.
C17_Witness ==
    /\ ev.op = "tileClick" /\ ev.item.media_type = "video"
    /\ ev.found.visible /\ ev.found.video
    /\ Len(iframes) = 1 /\ imgDisplay = "none" /\ ariaHidden = "false"

LoaderOps == {"trigger", "fetchSettle", "bodySettle"}

ModalOps == {"tileClick", "closeBtn", "overlayClick", "keydown"}

\* C18: a trigger click and the end of either await of the loader (success,
\* empty, failure) leave the whole state of the overlay unchanged, also when
\* it is visible; a tile click, a close and a key press leave the gallery
\* content, the pending invocations and the fetch and log counts unchanged.
C18_LoaderAndModalIndependent ==
    [][ /\ ev'.op \in LoaderOps => UNCHANGED modalVars
        /\ ev'.op \in ModalOps => UNCHANGED <<galleryVars, clicks>>
      ]_vars

\* A load has just failed with status 500 while the overlay was showing the
\* video B, which it still shows.
C18_Witness ==
    /\ ev.op = "fetchSettle" /\ ev.response = Response(500)
    /\ ErrorOnly(galleryHTML)
    /\ ariaHidden = "false" /\ iframes = <<"u2">> /\ imgDisplay = "none"
    /\ titleText = "B" /\ bodyOverflow = "hidden"

\* The event handled last was a call of closeModal.
JustClosed ==
    \/ ev.op = "closeBtn"
    \/ ev.op = "overlayClick" /\ Truthy(ev.marker)
    \/ ev.op = "keydown" /\ ev.key = "Escape" /\ ev.found.visible

\* C19: from any state, close leaves the overlay hidden, without embed, the
\* image source empty, the image element visible and the scroll lock off;
\* a close that follows a close at once changes nothing.
C19_CloseIdempotent ==
    [][ /\ ClosingStep =>
              /\ ariaHidden' = "true" /\ iframes' = <<>>
              /\ imgSrc' = "" /\ imgDisplay' = "" /\ bodyOverflow' = ""
        /\ (JustClosed /\ ClosingStep) => UNCHANGED modalVars
      ]_vars

\* The close control has been activated on an overlay that had been opened
\* and closed before.
C19_Witness ==
    /\ ev.op = "closeBtn" /\ ~ev.found.visible /\ ~ev.found.video
    /\ titleText # "" /\ focus = "modalCloseBtn"
    /\ ariaHidden = "true" /\ imgSrc = "" /\ imgDisplay = "" /\ bodyOverflow = ""

====
